---- MODULE Spec2Model ----
(***************************************************************************)
(* The post composer of snaps-aliento-blog (SnapComposer.tsx): draft       *)
(* state, attachment handlers, the video upload / thumbnail orchestration   *)
(* of handleVideoSelection and the assembly and ledger submission of        *)
(* handleComment.  Each action is one event-loop turn of the component: a   *)
(* user event handler, or a callback / promise continuation together with   *)
(* everything it runs synchronously up to its next await.                   *)
(***************************************************************************)
EXTENDS Integers, Sequences, FiniteSets, TLC

\* ---------------------------------------------------------------- bounds
MaxImages == 2
\* a video file is Chunks parts of ChunkSize bytes
Chunks == 2
ChunkSize == 128

\* ------------------------------------------------------ program constants
BeneficiaryWeight == 1000
BeneficiaryAccount == "snapie"
AppId == "mycommunity"
ReservedContainer == "snaps"
\* process.env.NEXT_PUBLIC_HIVE_COMMUNITY_TAG
CommunityTag == "hive-community"

NULL == "null"
NoAlert == "none"

\* ------------------------------------------------------------ input sets
ImageFiles == {"i1", "i2"}
VideoFiles == {"vA", "vB"}
Gifs == {"g1"}
Users == {"alice"}
\* submit times, in milliseconds since 1970-01-01T00:00:00.000Z
Timestamps == {1007}
\* values of the pp prop: the reserved container tag, or the permlink of a post
ParentPermlinks == {"snaps", "some-post"}
\* files the video picker offers
Selectable == {"vA"}
\* size of a video file in bytes
BytesTotal == Chunks * ChunkSize
\* byte counts tus reports to onProgress: the first byte, then every completed part
BytesUploaded == {1} \cup {k * ChunkSize : k \in 1..Chunks}

\* URL the image host returns for an uploaded image file
ImageUrlOf(f) == CASE f = "i1" -> "u1" [] f = "i2" -> "u2" [] OTHER -> "u3"
\* value of the X-Embed-URL response header the video host sends for a file
EmbedUrlOf(f) == IF f = "vA" THEN "embed?v=meno/idA" ELSE "embed?v=meno/idB"
\* the permlink of the current snaps container returned by the lookup
ContainerPermlink == "snap-container-1"

\* ---------------------------------------------------------- body tokens
Tok(k, v) == [k |-> k, v |-> v]
NL == Tok("nl", "\n")
Word(w) == Tok("txt", w)
Ws == Tok("ws", " ")
\* '#' followed by the word characters w
Hashtag(w) == Tok("tag", w)
EmbedTok(url) == Tok("embed", url)
ImageMd(url) == Tok("image", url)
GifMd(g) == Tok("gif", g)

\* drafts: empty, blank, and "hi #b #snaps #B #b"
Texts ==
    {<< >>, <<Ws>>,
     <<Word("hi"), Ws, Hashtag("b"), Ws, Hashtag("snaps"), Ws, Hashtag("B"), Ws, Hashtag("b")>>}

RECURSIVE TrimStart(_)
TrimStart(s) == IF s # << >> /\ Head(s).k \in {"ws", "nl"} THEN TrimStart(Tail(s)) ELSE s
RECURSIVE TrimEnd(_)
TrimEnd(s) ==
    IF s # << >> /\ s[Len(s)].k \in {"ws", "nl"} THEN TrimEnd(SubSeq(s, 1, Len(s) - 1)) ELSE s
\* String.prototype.trim
Trim(s) == TrimEnd(TrimStart(s))

RECURSIVE JoinLines(_)
\* array.join('\n')
JoinLines(lines) ==
    IF lines = << >> THEN << >>
    ELSE IF Len(lines) = 1 THEN <<lines[1]>>
    ELSE <<lines[1], NL>> \o JoinLines(Tail(lines))

RECURSIVE FilterNonNull(_)
\* uploadedImages.filter(url => url !== null)
FilterNonNull(s) ==
    IF s = << >> THEN << >>
    ELSE IF Head(s) = NULL THEN FilterNonNull(Tail(s))
    ELSE <<Head(s)>> \o FilterNonNull(Tail(s))

\* prevImages.filter((_, i) => i !== index)
RemoveAt(s, i) == SubSeq(s, 1, i - 1) \o SubSeq(s, i + 1, Len(s))

\* Math.round((bytesUploaded / bytesTotal) * 100)
Percentage(bytesUploaded, bytesTotal) == (200 * bytesUploaded + bytesTotal) \div (2 * bytesTotal)

Range(s) == {s[i] : i \in 1..Len(s)}


\* ------------------------------------------------------------------ state
VARIABLES
    user,                 \* useAioha().user: the logged-in account or NULL
    apiKey,               \* process.env.NEXT_PUBLIC_3SPEAK_API_KEY or NULL
    text,                 \* postBodyRef.current.value
    images,               \* useState<File[]>
    selectedGif,
    selectedVideo,
    videoUploadProgress,
    videoEmbedUrl,
    thumbnailProcessing,
    isGiphyModalOpen,
    isLoading,
    tasks,                \* per video file, the handleVideoSelection run in flight for it
    hc,                   \* the running handleComment invocation (its closure and position)
    alertMsg,             \* window.alert shown by the latest step (NoAlert if none)
    sent,                 \* transaction handed to aioha by the latest step (<< >> if none)
    calls,                \* onNewComment / onClose calls made by the latest step
    joined,               \* the handleVideoSelection run whose allSettled join ran in the
                          \* latest step (<< >> if none)
    thumb,                \* one extractAndUploadThumbnail call followed await by await
                          \* (ThumbnailSpec)
    subs,                 \* submit time and permlink of successive submissions
                          \* (PermlinkSpec)
    sb                    \* RightSideBar: its state, refs and the findPosts requests
                          \* in flight (SidebarSpec)

env == <<user, apiKey>>
draft == <<text, images, selectedGif, isGiphyModalOpen>>
video == <<selectedVideo, videoUploadProgress, videoEmbedUrl, thumbnailProcessing>>
vars == <<user, apiKey, text, images, selectedGif, selectedVideo, videoUploadProgress,
          videoEmbedUrl, thumbnailProcessing, isGiphyModalOpen, isLoading, tasks, hc,
          alertMsg, sent, calls, joined, thumb, subs, sb>>

\* the calls that are followed step by step in a specification of their own
lib == <<thumb, subs, sb>>

pa == "parent-author"

\* derived render values
hasMedia == Len(images) > 0 \/ selectedGif # NULL
hasVideo == selectedVideo # NULL
isDisabled == user = NULL \/ isLoading

Idle ==
    [pc |-> "idle", imgs |-> << >>, st |-> << >>, body |-> << >>, permlink |-> << >>,
     embed |-> NULL, gif |-> NULL, pp |-> NULL, results |-> << >>, urls |-> << >>,
     tx |-> << >>]

\* no extractAndUploadThumbnail call is being followed
NoThumb ==
    [pc |-> "idle", file |-> NULL, trace |-> << >>, apiCalls |-> << >>,
     response |-> << >>, result |-> [st |-> "pending", url |-> << >>]]

\* RightSideBar before its first render
Unmounted ==
    [mounted |-> FALSE, communityTag |-> NULL, mutedReq |-> "none", mutedAccounts |-> << >>,
     mutedLoaded |-> FALSE, isFetching |-> FALSE, isLoading |-> FALSE, allPosts |-> << >>,
     params |-> [start_author |-> "", start_permlink |-> ""], inFlight |-> << >>,
     fetches |-> 0, event |-> "none"]

\* removed: the Remove video button was pressed while the run was in flight
NoTask == [pc |-> "idle", up |-> "idle", embedUrl |-> NULL, th |-> "idle", removed |-> FALSE]

Init ==
    /\ user \in Users \cup {NULL}
    /\ apiKey \in {"key", NULL}
    /\ text = << >>
    /\ images = << >>
    /\ selectedGif = NULL
    /\ selectedVideo = NULL
    /\ videoUploadProgress = 0
    /\ videoEmbedUrl = NULL
    /\ thumbnailProcessing = FALSE
    /\ isGiphyModalOpen = FALSE
    /\ isLoading = FALSE
    /\ tasks = [f \in VideoFiles |-> NoTask]
    /\ hc = Idle
    /\ alertMsg = NoAlert
    /\ sent = << >>
    /\ calls = << >>
    /\ joined = << >>
    /\ thumb = NoThumb
    /\ subs = << >>
    /\ sb = Unmounted

\* a step that shows no alert, sends nothing, calls no prop and joins no video run
Quiet ==
    /\ alertMsg' = NoAlert
    /\ sent' = << >>
    /\ calls' = << >>
    /\ joined' = << >>

\* ----------------------------------------------------- draft user actions
\* the user edits the textarea (enabled unless isDisabled)
TypeText(t) ==
    /\ ~isDisabled
    /\ text # t
    /\ text' = t
    /\ Quiet
    /\ UNCHANGED <<env, lib, images, selectedGif, isGiphyModalOpen, video, isLoading, tasks, hc>>

\* image button -> ImageUploader onUpload={setImages}
AddImage(f) ==
    /\ ~(isDisabled \/ hasVideo)
    /\ Len(images) < MaxImages
    /\ images' = Append(images, f)
    /\ Quiet
    /\ UNCHANGED <<env, lib, text, selectedGif, isGiphyModalOpen, video, isLoading, tasks, hc>>

\* "Remove image" icon button
RemoveImage(index) ==
    /\ ~isLoading
    /\ index \in 1..Len(images)
    /\ images' = RemoveAt(images, index)
    /\ Quiet
    /\ UNCHANGED <<env, lib, text, selectedGif, isGiphyModalOpen, video, isLoading, tasks, hc>>

\* GIF button: setGiphyModalOpen(!isGiphyModalOpen)
ToggleGiphy ==
    /\ ~(isDisabled \/ hasVideo)
    /\ isGiphyModalOpen' = ~isGiphyModalOpen
    /\ Quiet
    /\ UNCHANGED <<env, lib, text, images, selectedGif, video, isLoading, tasks, hc>>

\* GiphySelector onSelect, rendered whenever isGiphyModalOpen
SelectGif(gif) ==
    /\ isGiphyModalOpen
    /\ selectedGif' = gif
    /\ isGiphyModalOpen' = FALSE
    /\ Quiet
    /\ UNCHANGED <<env, lib, text, images, video, isLoading, tasks, hc>>

\* "Remove GIF" icon button
RemoveGif ==
    /\ selectedGif # NULL
    /\ ~isLoading
    /\ selectedGif' = NULL
    /\ Quiet
    /\ UNCHANGED <<env, lib, text, images, isGiphyModalOpen, video, isLoading, tasks, hc>>

\* "Remove video" icon button
RemoveVideo ==
    /\ selectedVideo # NULL
    /\ ~isLoading
    /\ selectedVideo' = NULL
    /\ videoEmbedUrl' = NULL
    /\ videoUploadProgress' = 0
    /\ tasks' = [f \in VideoFiles |->
                    IF f = selectedVideo /\ tasks[f].pc = "await"
                    THEN [tasks[f] EXCEPT !.removed = TRUE]
                    ELSE tasks[f]]
    /\ Quiet
    /\ UNCHANGED <<env, lib, draft, thumbnailProcessing, isLoading, hc>>

\* ------------------------------------------- video upload and thumbnail
\* url.searchParams.get('v'), split on '/': the segments of the v parameter,
\* NULL when the reference has no v parameter or is not a URL
VideoParam(embedUrl) ==
    CASE embedUrl = "embed?v=meno/idA" -> <<"meno", "idA">>
      [] embedUrl = "embed?v=meno/idB" -> <<"meno", "idB">>
      [] embedUrl = "embed?v=idC" -> <<"idC">>
      [] OTHER -> NULL

\* ExtractVideoId that returns the owner segment
ExtractVideoIdOwner(embedUrl) ==
    LET parts == VideoParam(embedUrl)
    IN IF parts = NULL THEN NULL ELSE parts[1]

\* extractVideoId: parts[1] of the v parameter (undefined when it has no '/')
ExtractVideoId(embedUrl) ==
    LET parts == VideoParam(embedUrl)
    IN IF parts = NULL THEN NULL
       ELSE IF Len(parts) >= 2 THEN parts[2]
       ELSE NULL

\* NewTask that starts the transfer whether or not there is a credential
NewTaskIgnoresCredential ==
    [pc |-> "await", up |-> "running", embedUrl |-> NULL, th |-> "running",
     removed |-> FALSE]

\* the two promises handleVideoSelection hands to Promise.allSettled
NewTask ==
    [pc |-> "await",
     \* uploadVideoToThreeSpeak: rejects at once without a credential, else tus starts
     up |-> IF apiKey = NULL THEN "nokey" ELSE "running",
     embedUrl |-> NULL,
     th |-> "running",
     removed |-> FALSE]

UploadRejected(t) == t.up \in {"nokey", "transport", "noembed"}
ThumbFulfilled(t) == t.th \in {"hive", "ipfs"}
Settled(t) ==
    /\ t.up = "fulfilled" \/ UploadRejected(t)
    /\ ThumbFulfilled(t) \/ t.th = "rejected"

\* JoinResult with a rejected thumbnail treated like a rejected upload
JoinResultThumbnailFatal(t) ==
    IF t.up = "fulfilled" /\ ThumbFulfilled(t)
    THEN LET videoId == ExtractVideoId(t.embedUrl)
             callsEndpoint == videoId # NULL /\ apiKey # NULL
         IN [setsEmbed |-> TRUE, embed |-> t.embedUrl, clears |-> FALSE,
             alert |-> NoAlert,
             assign |-> IF callsEndpoint THEN <<videoId, t.th>> ELSE << >>]
    ELSE [setsEmbed |-> FALSE, embed |-> NULL, clears |-> TRUE,
          alert |-> "Failed to upload video. Please try again.",
          assign |-> << >>]

\* what handleVideoSelection does once Promise.allSettled has resolved (lines 267-304)
JoinResult(t) ==
    IF t.up = "fulfilled"
    THEN LET videoId == IF ThumbFulfilled(t) THEN ExtractVideoId(t.embedUrl) ELSE NULL
             callsEndpoint == ThumbFulfilled(t) /\ videoId # NULL /\ apiKey # NULL
         IN [setsEmbed |-> TRUE, embed |-> t.embedUrl, clears |-> FALSE,
             alert |-> NoAlert,
             assign |-> IF callsEndpoint THEN <<videoId, t.th>> ELSE << >>]
    ELSE [setsEmbed |-> FALSE, embed |-> NULL, clears |-> TRUE,
          alert |-> "Failed to upload video. Please try again.",
          assign |-> << >>]

\* A callback of the run for file f has run: t2 is the run after it, sv and progress
\* the values its own setters left.  When it settled the last of the two promises,
\* the continuation of handleVideoSelection runs in the same turn.
Settle(f, t2, sv, progress) ==
    IF Settled(t2)
    THEN LET r == JoinResult(t2)
         IN /\ tasks' = [tasks EXCEPT ![f] = IF r.assign # << >>
                                             THEN [t2 EXCEPT !.pc = "assign"]
                                             ELSE NoTask]
            /\ videoEmbedUrl' = IF r.setsEmbed THEN r.embed ELSE videoEmbedUrl
            /\ selectedVideo' = IF r.clears THEN NULL ELSE sv
            /\ videoUploadProgress' = IF r.clears THEN 0 ELSE progress
            /\ thumbnailProcessing' = IF r.assign # << >> THEN thumbnailProcessing ELSE FALSE
            /\ alertMsg' = r.alert
            /\ joined' = <<[file |-> f, up |-> t2.up, th |-> t2.th, assign |-> r.assign,
                             removed |-> t2.removed, videoBefore |-> selectedVideo]>>
    ELSE /\ tasks' = [tasks EXCEPT ![f] = t2]
         /\ selectedVideo' = sv
         /\ videoUploadProgress' = progress
         /\ alertMsg' = NoAlert
         /\ joined' = << >>
         /\ UNCHANGED <<videoEmbedUrl, thumbnailProcessing>>

\* video button -> VideoUploader onUpload={handleVideoSelection}
SelectVideo(file) ==
    /\ ~(isDisabled \/ hasMedia \/ videoUploadProgress > 0)
    /\ tasks[file].pc = "idle"
    /\ tasks' = [tasks EXCEPT ![file] = NewTask]
    /\ selectedVideo' = file
    /\ videoUploadProgress' = 1
    /\ thumbnailProcessing' = TRUE
    /\ Quiet
    /\ UNCHANGED <<env, lib, draft, videoEmbedUrl, isLoading, hc>>

\* tus onProgress
TusProgress(f, bytesUploaded, bytesTotal) ==
    /\ tasks[f].up = "running"
    /\ videoUploadProgress' = Percentage(bytesUploaded, bytesTotal)
    /\ Quiet
    /\ UNCHANGED <<env, lib, draft, selectedVideo, videoEmbedUrl, thumbnailProcessing, isLoading,
                   tasks, hc>>

\* ObservedEmbedUrl that keeps the first header it saw
ObservedEmbedUrlFirst(embedUrl, headers) ==
    LET seen == SelectSeq(headers, LAMBDA h : h \notin {NULL, ""})
    IN IF embedUrl # NULL THEN embedUrl
       ELSE IF seen = << >> THEN NULL
       ELSE seen[1]

\* tus onAfterResponse run over the responses of one upload: `if (url)` stores
\* the X-Embed-URL header of a response that carries a non-empty one, so embedUrl
\* ends as the last such header (NULL: header absent, "": header empty)
RECURSIVE ObservedEmbedUrl(_, _)
ObservedEmbedUrl(embedUrl, headers) ==
    IF headers = << >> THEN embedUrl
    ELSE ObservedEmbedUrl(IF Head(headers) \notin {NULL, ""} THEN Head(headers) ELSE embedUrl,
                          Tail(headers))

\* a reference whose v parameter has no '/', and one with no v parameter
NoIdUrl == "embed?v=idC"
NoParamUrl == "embed"

\* the X-Embed-URL headers (NULL: absent) of the responses of one upload of f
ResponseHeaders(f) ==
    {<<NULL>>, <<"">>, <<EmbedUrlOf(f)>>, <<EmbedUrlOf(f), NULL>>, <<EmbedUrlOf(f), "">>,
     <<NoIdUrl, EmbedUrlOf(f)>>}

\* responses whose last header is a reference without an id segment
MalformedHeaders(f) == {<<NoIdUrl>>, <<NoParamUrl>>, <<EmbedUrlOf(f), NoIdUrl>>}

\* tus onError, after the retries are used up
TusError(f) ==
    /\ tasks[f].up = "running"
    /\ Settle(f, [tasks[f] EXCEPT !.up = "transport"], NULL, 0)
    /\ sent' = << >> /\ calls' = << >>
    /\ UNCHANGED <<env, lib, draft, isLoading, hc>>

\* tus onSuccess, after onAfterResponse has seen the responses with `headers`
TusSuccess(f, headers) ==
    /\ tasks[f].up = "running"
    /\ LET embedUrl == ObservedEmbedUrl(NULL, headers)
       IN Settle(f,
                 IF embedUrl # NULL
                 THEN [tasks[f] EXCEPT !.up = "fulfilled", !.embedUrl = embedUrl]
                 ELSE [tasks[f] EXCEPT !.up = "noembed"],
                 selectedVideo, videoUploadProgress)
    /\ sent' = << >> /\ calls' = << >>
    /\ UNCHANGED <<env, lib, draft, isLoading, hc>>

\* extractAndUploadThumbnail as a function of what its collaborators do:
\* extractThumbnail (extracted), getFileSignature + uploadImage (primaryOk),
\* uploadThumbnailToIPFS (fallbackOk)
ThumbnailOutcome(extracted, primaryOk, fallbackOk) ==
    IF ~extracted THEN "rejected"
    ELSE IF primaryOk THEN "hive"
    ELSE IF fallbackOk THEN "ipfs"
    ELSE "rejected"

\* extractAndUploadThumbnail settles
ThumbSettled(f, extracted, primaryOk, fallbackOk) ==
    /\ tasks[f].th = "running"
    /\ Settle(f, [tasks[f] EXCEPT !.th = ThumbnailOutcome(extracted, primaryOk, fallbackOk)],
              selectedVideo, videoUploadProgress)
    /\ sent' = << >> /\ calls' = << >>
    /\ UNCHANGED <<env, lib, draft, isLoading, hc>>

\* setVideoThumbnail settles (2xx, non-2xx or network error): finally block
AssignSettled(f) ==
    /\ tasks[f].pc = "assign"
    /\ tasks' = [tasks EXCEPT ![f] = NoTask]
    /\ thumbnailProcessing' = FALSE
    /\ Quiet
    /\ UNCHANGED <<env, lib, draft, selectedVideo, videoUploadProgress, videoEmbedUrl, isLoading,
                   hc>>


\* --------------------------- extractAndUploadThumbnail, await by await
\* the composer, which a call followed on its own leaves alone
composer ==
    <<user, apiKey, text, images, selectedGif, selectedVideo, videoUploadProgress,
      videoEmbedUrl, thumbnailProcessing, isGiphyModalOpen, isLoading, tasks, hc,
      alertMsg, sent, calls, joined>>

\* content hashes the fallback host reports
Hashes == {"Qm1", "Qm2"}
\* most NDJSON lines in one response of the fallback host
MaxLines == 3

IpfsPrefix == "https://ipfs.3speak.tv/ipfs/"
\* URL the primary image host returns for the thumbnail of a file
ThumbnailUrlOf(file) == <<"primary-host/", file>>

\* one line of the fallback's NDJSON answer: a JSON object with a Hash field
JsonLine(hash) == Tok("json", hash)

\* the NDJSON text for the given hashes, one object per line, each line ended by
\* '\n' (terminated) or only separated by it
RECURSIVE Ndjson(_, _)
Ndjson(hashes, terminated) ==
    IF hashes = << >> THEN << >>
    ELSE IF Len(hashes) = 1
    THEN <<JsonLine(hashes[1])>> \o (IF terminated THEN <<NL>> ELSE << >>)
    ELSE <<JsonLine(hashes[1]), NL>> \o Ndjson(Tail(hashes), terminated)

HashSeqs == UNION {[1..n -> Hashes] : n \in 0..MaxLines}

\* what the fetch of the fallback host can come to: a network error, a non-2xx
\* response, or a 2xx response with an NDJSON text (lines: the hashes it was made of)
IpfsResponses ==
    {[kind |-> "network", ok |-> FALSE, lines |-> << >>, text |-> << >>],
     [kind |-> "http", ok |-> FALSE, lines |-> << >>, text |-> << >>]}
    \cup {[kind |-> "http", ok |-> TRUE, lines |-> l, text |-> Ndjson(l, t)] :
             l \in HashSeqs, t \in BOOLEAN}

\* String.prototype.split('\n')
RECURSIVE SplitLines(_)
SplitLines(s) ==
    IF \A i \in 1..Len(s) : s[i] # NL THEN <<s>>
    ELSE LET i == CHOOSE j \in 1..Len(s) : s[j] = NL /\ \A m \in 1..(j - 1) : s[m] # NL
         IN <<SubSeq(s, 1, i - 1)>> \o SplitLines(SubSeq(s, i + 1, Len(s)))

\* JSON.parse of one line: throws unless the line is one JSON object
ParseJson(line) ==
    IF Len(line) = 1 /\ line[1].k = "json"
    THEN [ok |-> TRUE, Hash |-> line[1].v]
    ELSE [ok |-> FALSE, Hash |-> NULL]

\* LastLine taking the first line instead
FirstLine(lines) == lines[1]

\* lines[lines.length - 1]
LastLine(lines) == lines[Len(lines)]

Rejected == [st |-> "rejected", url |-> << >>]
Fulfilled(url) == [st |-> "fulfilled", url |-> url]

\* uploadThumbnailToIPFS from the settling of its fetch (lines 112-126)
IpfsResult(response) ==
    IF response.kind = "network" \/ ~response.ok THEN Rejected
    ELSE LET parsed == ParseJson(LastLine(SplitLines(Trim(response.text))))
         IN IF parsed.ok THEN Fulfilled(<<IpfsPrefix, parsed.Hash>>) ELSE Rejected

\* extractAndUploadThumbnail(file) is called: extractThumbnail creates the object
\* URL and loads the video
StartThumbnail(file) ==
    /\ thumb.pc = "idle"
    /\ thumb' = [thumb EXCEPT !.pc = "extract", !.file = file,
                              !.apiCalls = <<"createObjectURL">>]
    /\ UNCHANGED <<composer, subs, sb>>

\* the video element fires 'error' (lines 92-95); the rejection passes through the
\* outer catch of extractAndUploadThumbnail
VideoError ==
    /\ thumb.pc = "extract"
    /\ thumb' = [thumb EXCEPT !.pc = "done",
                              !.trace = Append(@, "video-error"),
                              !.apiCalls = Append(@, "revokeObjectURL"),
                              !.result = Rejected]
    /\ UNCHANGED <<composer, subs, sb>>

\* the video element fires 'seeked' (lines 65-90): without a 2D context the promise
\* is rejected and the handler returns, otherwise the frame is drawn and toBlob starts
Seeked(hasContext) ==
    /\ thumb.pc = "extract"
    /\ thumb' = IF hasContext
                THEN [thumb EXCEPT !.pc = "encode"]
                ELSE [thumb EXCEPT !.pc = "done",
                                   !.trace = Append(@, "no-context"),
                                   !.result = Rejected]
    /\ UNCHANGED <<composer, subs, sb>>

\* the toBlob callback (lines 79-86): resolve or reject, then revoke.  On resolve
\* extractAndUploadThumbnail goes on to getFileSignature (line 144).
BlobCallback(hasBlob) ==
    /\ thumb.pc = "encode"
    /\ thumb' = IF hasBlob
                THEN [thumb EXCEPT !.pc = "sign",
                                   !.trace = Append(@, "blob"),
                                   !.apiCalls = @ \o <<"revokeObjectURL", "getFileSignature">>]
                ELSE [thumb EXCEPT !.pc = "done",
                                   !.trace = Append(@, "no-blob"),
                                   !.apiCalls = Append(@, "revokeObjectURL"),
                                   !.result = Rejected]
    /\ UNCHANGED <<composer, subs, sb>>

\* PrimaryFailed that gives up without trying the fallback
PrimaryFailedNoFallback(t, event) ==
    [t EXCEPT !.pc = "done", !.trace = Append(@, event), !.result = Rejected]

\* catch (hiveError), lines 148-150: uploadThumbnailToIPFS issues its fetch
PrimaryFailed(t, event) ==
    [t EXCEPT !.pc = "ipfs", !.trace = Append(@, event), !.apiCalls = Append(@, "fetch-ipfs")]

\* getFileSignature settles
SignSettled(signed) ==
    /\ thumb.pc = "sign"
    /\ thumb' = IF signed
                THEN [thumb EXCEPT !.pc = "upload",
                                   !.trace = Append(@, "signed"),
                                   !.apiCalls = Append(@, "uploadImage")]
                ELSE PrimaryFailed(thumb, "sign-failed")
    /\ UNCHANGED <<composer, subs, sb>>

\* uploadImage settles
UploadSettled(uploaded) ==
    /\ thumb.pc = "upload"
    /\ thumb' = IF uploaded
                THEN [thumb EXCEPT !.pc = "done",
                                   !.trace = Append(@, "uploaded"),
                                   !.result = Fulfilled(ThumbnailUrlOf(thumb.file))]
                ELSE PrimaryFailed(thumb, "upload-failed")
    /\ UNCHANGED <<composer, subs, sb>>

\* the fetch of the fallback host settles
IpfsSettled(response) ==
    /\ thumb.pc = "ipfs"
    /\ thumb' = [thumb EXCEPT !.pc = "done",
                              !.trace = Append(@, "ipfs-settled"),
                              !.response = <<response>>,
                              !.result = IpfsResult(response)]
    /\ UNCHANGED <<composer, subs, sb>>

ThumbnailInit == Init /\ user \in Users /\ apiKey # NULL

ThumbnailNext ==
    \/ \E file \in VideoFiles : StartThumbnail(file)
    \/ VideoError
    \/ \E hasContext \in BOOLEAN : Seeked(hasContext)
    \/ \E hasBlob \in BOOLEAN : BlobCallback(hasBlob)
    \/ \E signed \in BOOLEAN : SignSettled(signed)
    \/ \E uploaded \in BOOLEAN : UploadSettled(uploaded)
    \/ \E response \in IpfsResponses : IpfsSettled(response)

ThumbnailSpec == ThumbnailInit /\ [][ThumbnailNext]_vars


\* ------------------------------------------------------- handleComment
\* WithEmbed with a single newline before the embed reference
WithEmbedSingleNewline(body, embed) ==
    IF embed # NULL THEN body \o <<NL, EmbedTok(embed)>> ELSE body

\* lines 328-332: the embed reference appended as its own paragraph
WithEmbed(body, embed) ==
    IF embed # NULL THEN body \o <<NL, NL, EmbedTok(embed)>> ELSE body

\* lines 349-352: `![image](url)` per uploaded URL, joined by '\n'
WithImages(body, validUrls) ==
    IF Len(validUrls) > 0
    THEN body \o <<NL, NL>> \o JoinLines([i \in 1..Len(validUrls) |-> ImageMd(validUrls[i])])
    ELSE body

\* lines 355-357
WithGif(body, gif) ==
    IF gif # NULL THEN body \o <<NL, NL, GifMd(gif)>> ELSE body

\* StoreResult with the values collected in the order the promises settle
StoreResultInCompletionOrder(results, i, value) ==
    LET k == CHOOSE j \in 1..Len(results) :
                 /\ results[j] = "pending"
                 /\ \A m \in 1..(j - 1) : results[m] # "pending"
    IN [results EXCEPT ![k] = value]

\* Promise.all: the value of the i-th promise goes to position i of the result
StoreResult(results, i, value) == [results EXCEPT ![i] = value]

\* extractHashtags: the matches of /#(\w+)/g in order, without the '#'
ExtractHashtags(body) ==
    LET matches == SelectSeq(body, LAMBDA t : t.k = "tag")
    IN [i \in 1..Len(matches) |-> matches[i].v]

\* Unique that keeps every occurrence
KeepAll(s) == s

\* [...new Set(s)]: the elements of s in order of first occurrence
RECURSIVE Unique(_)
Unique(s) ==
    IF s = << >> THEN << >>
    ELSE LET init == Unique(SubSeq(s, 1, Len(s) - 1))
             last == s[Len(s)]
         IN IF \E i \in 1..Len(init) : init[i] = last THEN init ELSE Append(init, last)

\* lines 360-370: the seed tags when pp was "snaps", then the hashtags of the body
SnapsTags(inContainer, body) ==
    Unique((IF inContainer THEN <<CommunityTag, "snaps">> ELSE << >>)
           \o ExtractHashtags(body))

CommentOp(parentPermlink, permlink, body, validUrls, snapsTags) ==
    [op |-> "comment", parent_author |-> pa, parent_permlink |-> parentPermlink,
     author |-> user, permlink |-> permlink, title |-> "", body |-> body,
     app |-> AppId, tags |-> snapsTags, images |-> validUrls, beneficiaries |-> << >>]

OptionsOp(permlink) ==
    [op |-> "comment_options", parent_author |-> "", parent_permlink |-> "",
     author |-> user, permlink |-> permlink, title |-> "", body |-> << >>,
     app |-> "", tags |-> << >>, images |-> << >>,
     beneficiaries |-> <<[account |-> BeneficiaryAccount, weight |-> BeneficiaryWeight]>>]

\* lines 375-418: the transaction handed to aioha
Transaction(embed, parentPermlink, permlink, body, validUrls, snapsTags) ==
    IF embed # NULL
    THEN [api |-> "signAndBroadcastTx",
          ops |-> <<CommentOp(parentPermlink, permlink, body, validUrls, snapsTags),
                    OptionsOp(permlink)>>]
    ELSE [api |-> "comment",
          ops |-> <<CommentOp(parentPermlink, permlink, body, validUrls, snapsTags)>>]

\* lines 347-418 up to the next await, for the closure h and the uploaded URLs:
\* returns without publishing when the body is empty, else awaits the container
\* lookup (pp === "snaps") or the broadcast
Assemble(h, uploaded) ==
    LET validUrls == FilterNonNull(uploaded)
        body == WithGif(WithImages(h.body, validUrls), h.gif)
    IN IF body = << >>
       THEN /\ hc' = Idle
            /\ sent' = << >>
       ELSE IF h.pp = ReservedContainer
       THEN /\ hc' = [h EXCEPT !.pc = "lookup", !.body = body, !.urls = validUrls]
            /\ sent' = << >>
       ELSE LET tx == Transaction(h.embed, h.pp, h.permlink, body, validUrls,
                                   SnapsTags(FALSE, body))
            IN /\ hc' = [h EXCEPT !.pc = "broadcast", !.body = body, !.urls = validUrls,
                                  !.tx = <<tx>>]
               /\ sent' = <<tx>>

Digit(d) == <<"0", "1", "2", "3", "4", "5", "6", "7", "8", "9">>[d + 1]
Pad2(n) == <<Digit((n \div 10) % 10), Digit(n % 10)>>

\* Pad3 keeping only the hundreds
Pad3Hundreds(n) == <<Digit((n \div 100) % 10), "0", "0">>

Pad3(n) == <<Digit((n \div 100) % 10), Digit((n \div 10) % 10), Digit(n % 10)>>

\* ToISOString without the fraction of the second
ToISOStringSeconds(now) ==
    <<"1", "9", "7", "0", "-", "0", "1", "-", "0", "1", "T">>
    \o Pad2(now \div 3600000) \o <<":">>
    \o Pad2((now \div 60000) % 60) \o <<":">>
    \o Pad2((now \div 1000) % 60) \o <<"Z">>

\* Date.prototype.toISOString, character by character, for a time of the first day
\* of the epoch: YYYY-MM-DDTHH:mm:ss.sssZ
ToISOString(now) ==
    <<"1", "9", "7", "0", "-", "0", "1", "-", "0", "1", "T">>
    \o Pad2(now \div 3600000) \o <<":">>
    \o Pad2((now \div 60000) % 60) \o <<":">>
    \o Pad2((now \div 1000) % 60) \o <<".">>
    \o Pad3(now % 1000) \o <<"Z">>

\* the characters of [a-zA-Z0-9] that occur in an ISO timestamp
AlphaNumeric == {Digit(d) : d \in 0..9} \cup {"T", "Z", "t", "z"}

\* .replace(/[^a-zA-Z0-9]/g, "")
StripNonAlphaNumeric(str) == SelectSeq(str, LAMBDA c : c \in AlphaNumeric)

\* .toLowerCase()
ToLowerCase(str) ==
    [i \in 1..Len(str) |-> CASE str[i] = "T" -> "t" [] str[i] = "Z" -> "z" [] OTHER -> str[i]]

\* lines 323-326
Permlink(now) == ToLowerCase(StripNonAlphaNumeric(ToISOString(now)))

\* EmptyDraft without the trim
EmptyDraftUntrimmed ==
    text = << >> /\ Len(images) = 0 /\ selectedGif = NULL /\ selectedVideo = NULL

\* line 315: nothing to post
EmptyDraft ==
    Trim(text) = << >> /\ Len(images) = 0 /\ selectedGif = NULL /\ selectedVideo = NULL

\* handleComment from its call to its first await
HandleComment ==
    IF user = NULL
    THEN /\ alertMsg' = "You must be logged in to post."
         /\ sent' = << >> /\ calls' = << >> /\ joined' = << >>
         /\ UNCHANGED <<env, lib, draft, video, isLoading, tasks, hc>>
    ELSE IF EmptyDraft
    THEN /\ alertMsg' = "Please enter some text, upload an image, select a gif, or upload a video before posting."
         /\ sent' = << >> /\ calls' = << >> /\ joined' = << >>
         /\ UNCHANGED <<env, lib, draft, video, isLoading, tasks, hc>>
    ELSE \E now \in Timestamps, pp \in ParentPermlinks :
         LET h == [pc |-> "images", imgs |-> images,
                   st |-> [i \in 1..Len(images) |-> "pending"],
                   body |-> WithEmbed(text, videoEmbedUrl), permlink |-> Permlink(now),
                   embed |-> videoEmbedUrl, gif |-> selectedGif, pp |-> pp,
                   results |-> [i \in 1..Len(images) |-> "pending"], urls |-> << >>,
                   tx |-> << >>]
         IN /\ isLoading' = TRUE
            /\ alertMsg' = NoAlert /\ calls' = << >> /\ joined' = << >>
            /\ IF Len(images) > 0
               THEN hc' = h /\ sent' = << >>
               ELSE Assemble(h, << >>)
            /\ UNCHANGED <<env, lib, draft, video, tasks>>

\* Post button
ClickPost ==
    /\ ~(isDisabled \/ (selectedVideo # NULL /\ videoEmbedUrl = NULL))
    /\ HandleComment

\* KeyDownCtrlEnter on a textarea that is never disabled
KeyDownAnyTime ==
    HandleComment

\* handleKeyDown: Ctrl+Enter in the textarea
KeyDownCtrlEnter ==
    /\ ~isDisabled
    /\ HandleComment

\* the async mapper of images.map for one image, as a function of what its
\* collaborators do: "threw" when getFileSignature rejects (outside the try),
\* "null" when uploadImage throws (caught), else "ok" (the URL is returned)
ImageOutcome(signed, uploaded) ==
    IF ~signed THEN "threw" ELSE IF uploaded THEN "ok" ELSE "null"

\* Promise.all over the mappers, which settle in the order `order`: the array of
\* their values, or <<"rejected">> as soon as one of them throws
RECURSIVE PromiseAll(_, _, _)
PromiseAll(results, order, outcomes) ==
    IF order = << >> THEN results
    ELSE LET i == Head(order)
         IN IF outcomes[i].st = "threw" THEN <<"rejected">>
            ELSE PromiseAll(StoreResult(results, i, outcomes[i].value), Tail(order), outcomes)

\* the orders in which n concurrent uploads can complete
CompletionOrders(n) == {o \in [1..n -> 1..n] : \A i, j \in 1..n : o[i] = o[j] => i = j}

\* The image uploads of the running handleComment settle, in the order `order`.
\* When Promise.all rejects, handleComment ends with that rejection (nothing after
\* line 336 runs); otherwise the continuation (lines 347 onwards) runs.
ImagesSettled(order, signed, uploaded) ==
    /\ hc.pc = "images"
    /\ LET n == Len(hc.imgs)
           outcomes == [i \in 1..n |->
                           LET st == ImageOutcome(signed[i], uploaded[i])
                           IN [st |-> st,
                               value |-> IF st = "ok" THEN ImageUrlOf(hc.imgs[i]) ELSE NULL]]
           all == PromiseAll(hc.results, order, outcomes)
           h == [hc EXCEPT !.st = [i \in 1..n |-> outcomes[i].st], !.results = all]
       IN IF all = <<"rejected">>
          THEN hc' = Idle /\ sent' = << >>
          ELSE Assemble(h, all)
    /\ alertMsg' = NoAlert /\ calls' = << >> /\ joined' = << >>
    /\ UNCHANGED <<env, lib, draft, video, isLoading, tasks>>

\* LookupOk that leaves pp as it was
LookupOkKeepsLiteral ==
    /\ hc.pc = "lookup"
    /\ LET tx == Transaction(hc.embed, hc.pp, hc.permlink, hc.body, hc.urls,
                              SnapsTags(TRUE, hc.body))
       IN /\ hc' = [hc EXCEPT !.pc = "broadcast", !.tx = <<tx>>]
          /\ sent' = <<tx>>
    /\ alertMsg' = NoAlert /\ calls' = << >> /\ joined' = << >>
    /\ UNCHANGED <<env, lib, draft, video, isLoading, tasks>>

\* getLastSnapsContainer resolves: pp is replaced and the transaction is sent
LookupOk ==
    /\ hc.pc = "lookup"
    /\ LET tx == Transaction(hc.embed, ContainerPermlink, hc.permlink, hc.body, hc.urls,
                              SnapsTags(TRUE, hc.body))
       IN /\ hc' = [hc EXCEPT !.pc = "broadcast", !.pp = ContainerPermlink, !.tx = <<tx>>]
          /\ sent' = <<tx>>
    /\ alertMsg' = NoAlert /\ calls' = << >> /\ joined' = << >>
    /\ UNCHANGED <<env, lib, draft, video, isLoading, tasks>>

\* getLastSnapsContainer throws: catch, finally
LookupFailed ==
    /\ hc.pc = "lookup"
    /\ hc' = Idle
    /\ isLoading' = FALSE
    /\ alertMsg' = "Error posting"
    /\ sent' = << >> /\ calls' = << >> /\ joined' = << >>
    /\ UNCHANGED <<env, lib, draft, video, tasks>>

\* SuccessCalls with the draft text in place of the assembled body
SuccessCallsDraftText(h) ==
    <<[fn |-> "onNewComment", author |-> user, permlink |-> h.permlink, body |-> text],
      [fn |-> "onClose", author |-> NULL, permlink |-> << >>, body |-> << >>]>>

\* the calls made on commentResponse.success (lines 429-436)
SuccessCalls(h) ==
    <<[fn |-> "onNewComment", author |-> user, permlink |-> h.permlink, body |-> h.body],
      [fn |-> "onClose", author |-> NULL, permlink |-> << >>, body |-> << >>]>>

\* commentResponse.success is true: lines 421-436, finally
BroadcastAccepted ==
    /\ hc.pc = "broadcast"
    /\ text' = << >>
    /\ images' = << >>
    /\ selectedGif' = NULL
    /\ selectedVideo' = NULL
    /\ videoEmbedUrl' = NULL
    /\ videoUploadProgress' = 0
    /\ thumbnailProcessing' = FALSE
    /\ calls' = SuccessCalls(hc)
    /\ isLoading' = FALSE
    /\ hc' = Idle
    /\ alertMsg' = NoAlert /\ sent' = << >> /\ joined' = << >>
    /\ UNCHANGED <<env, lib, isGiphyModalOpen, tasks>>

\* BroadcastRejected that also clears the draft text
BroadcastRejectedClearsText ==
    /\ hc.pc = "broadcast"
    /\ isLoading' = FALSE
    /\ hc' = Idle
    /\ text' = << >>
    /\ alertMsg' = "Failed to post. Please try again."
    /\ sent' = << >> /\ calls' = << >> /\ joined' = << >>
    /\ UNCHANGED <<env, lib, images, selectedGif, isGiphyModalOpen, video, tasks>>

\* commentResponse.success is false: alert, finally
BroadcastRejected ==
    /\ hc.pc = "broadcast"
    /\ isLoading' = FALSE
    /\ hc' = Idle
    /\ alertMsg' = "Failed to post. Please try again."
    /\ sent' = << >> /\ calls' = << >> /\ joined' = << >>
    /\ UNCHANGED <<env, lib, draft, video, tasks>>

\* the aioha call throws: catch, finally
BroadcastThrew ==
    /\ hc.pc = "broadcast"
    /\ isLoading' = FALSE
    /\ hc' = Idle
    /\ alertMsg' = "Error posting"
    /\ sent' = << >> /\ calls' = << >> /\ joined' = << >>
    /\ UNCHANGED <<env, lib, draft, video, tasks>>

\* ------------------------------------- permlinks of successive submissions
\* submit times within the first day of the epoch
SubmitTimes ==
    {0, 1, 2, 999, 1000, 1001, 1999, 59999, 60000, 3599999, 3600000, 86399999}

\* most submissions followed
MaxSubmissions == 2

\* handleComment is called at time `now` and computes its permlink (lines 323-326)
SubmitAt(now) ==
    /\ Len(subs) < MaxSubmissions
    /\ subs' = Append(subs, [now |-> now, permlink |-> Permlink(now)])
    /\ UNCHANGED <<composer, thumb, sb>>

PermlinkInit == Init /\ user \in Users /\ apiKey # NULL

PermlinkNext == \E now \in SubmitTimes : SubmitAt(now)

PermlinkSpec == PermlinkInit /\ [][PermlinkNext]_vars

\* ------------------------------------------------------- specification
Next ==
    \/ \E t \in Texts : TypeText(t)
    \/ \E f \in ImageFiles : AddImage(f)
    \/ \E i \in 1..MaxImages : RemoveImage(i)
    \/ ToggleGiphy
    \/ \E g \in Gifs : SelectGif(g)
    \/ RemoveGif
    \/ RemoveVideo
    \/ \E f \in Selectable : SelectVideo(f)
    \/ \E f \in VideoFiles, b \in BytesUploaded : TusProgress(f, b, BytesTotal)
    \/ \E f \in VideoFiles : TusError(f)
    \/ \E f \in VideoFiles : \E headers \in ResponseHeaders(f) : TusSuccess(f, headers)
    \/ \E f \in VideoFiles : \E extracted, primaryOk, fallbackOk \in BOOLEAN :
           ThumbSettled(f, extracted, primaryOk, fallbackOk)
    \/ \E f \in VideoFiles : AssignSettled(f)
    \/ ClickPost
    \/ KeyDownCtrlEnter
    \/ \E order \in CompletionOrders(Len(hc.imgs)) :
           \E uploaded \in [1..Len(hc.imgs) -> BOOLEAN] :
               ImagesSettled(order, [i \in 1..Len(hc.imgs) |-> TRUE], uploaded)
    \/ \E order \in CompletionOrders(Len(hc.imgs)) :
           \E unsigned \in 1..Len(hc.imgs) :
               /\ order[1] = unsigned
               /\ ImagesSettled(order, [i \in 1..Len(hc.imgs) |-> i # unsigned],
                                [i \in 1..Len(hc.imgs) |-> TRUE])
    \/ LookupOk
    \/ LookupFailed
    \/ BroadcastAccepted
    \/ BroadcastRejected
    \/ BroadcastThrew

Spec == Init /\ [][Next]_vars

\* --------------------------- the video attachment alone, two files at hand
\* handleVideoSelection and its callbacks with either file selectable and
\* every kind of X-Embed-URL header; the rest of the composer is left alone
VideoNext ==
    \/ RemoveVideo
    \/ \E f \in VideoFiles : SelectVideo(f)
    \/ \E f \in VideoFiles, b \in BytesUploaded : TusProgress(f, b, BytesTotal)
    \/ \E f \in VideoFiles : TusError(f)
    \/ \E f \in VideoFiles :
           \E headers \in ResponseHeaders(f) \cup MalformedHeaders(f) : TusSuccess(f, headers)
    \/ \E f \in VideoFiles : \E extracted, primaryOk, fallbackOk \in BOOLEAN :
           ThumbSettled(f, extracted, primaryOk, fallbackOk)
    \/ \E f \in VideoFiles : AssignSettled(f)

VideoSpec == Init /\ [][VideoNext]_vars

\* ------------------------------------------------------------ RightSideBar
\* most posts in one page (limit: 8 in params) and most fetchPosts calls followed
Limit == 2
MaxFetches == 4

\* useState('created')
Query == "created"

Post(author, permlink, parent_author) ==
    [author |-> author, permlink |-> permlink, parent_author |-> parent_author]

\* what findPosts may return: two top-level posts and a comment
Discussions ==
    {Post("alice", "p1", ""), Post("mallory", "p2", ""), Post("bob", "c1", "alice")}

\* the arrays findPosts may resolve with
Pages == UNION {[1..n -> Discussions] : n \in 0..Limit}

\* what getCommunityMutedAccounts may resolve with
MutedLists == {<< >>, <<"mallory">>}

\* posts.filter(...): top-level posts of accounts that are not muted
TopLevelPosts(posts, mutedAccounts) ==
    SelectSeq(posts, LAMBDA post :
        /\ post.parent_author = ""
        /\ post.author \notin Range(mutedAccounts))

\* topLevelPosts[length - 1] ?? posts[length - 1], << >> for undefined
LastVisible(topLevelPosts, posts) ==
    IF topLevelPosts # << >> THEN <<topLevelPosts[Len(topLevelPosts)]>>
    ELSE IF posts # << >> THEN <<posts[Len(posts)]>>
    ELSE << >>

\* params.current after a page: lastVisible?.author || '', lastVisible?.permlink || ''
NextParams(lastVisible) ==
    IF lastVisible = << >>
    THEN [start_author |-> "", start_permlink |-> ""]
    ELSE [start_author |-> lastVisible[1].author,
          start_permlink |-> lastVisible[1].permlink]

\* FetchPostsCall without the isFetching guard
FetchPostsUnguarded(s) ==
    [s EXCEPT !.isFetching = TRUE,
              !.isLoading = TRUE,
              !.inFlight = Append(@, [query |-> Query, params |-> s.params]),
              !.fetches = @ + 1,
              !.event = "issued"]

\* fetchPosts up to its await: the guard on the ref, then the request
FetchPostsCall(s) ==
    IF s.isFetching
    THEN [s EXCEPT !.event = "skipped"]
    ELSE [s EXCEPT !.isFetching = TRUE,
                   !.isLoading = TRUE,
                   !.inFlight = Append(@, [query |-> Query, params |-> s.params]),
                   !.fetches = @ + 1,
                   !.event = "issued"]

\* first render and the mount effects: fetchMutedAccounts asks for the muted
\* accounts only when a community tag is configured
Mount(communityTag) ==
    /\ ~sb.mounted
    /\ sb' = [Unmounted EXCEPT !.mounted = TRUE,
                               !.communityTag = communityTag,
                               !.mutedReq = IF communityTag # NULL THEN "pending" ELSE "none",
                               !.event = "mount"]
    /\ UNCHANGED <<composer, thumb, subs>>

\* getCommunityMutedAccounts resolves: the ref is set, setMutedLoaded(true), and
\* the effect on mutedLoaded calls fetchPosts
MutedAccountsLoaded(muted) ==
    /\ sb.mutedReq = "pending"
    /\ sb' = FetchPostsCall([sb EXCEPT !.mutedReq = "done",
                                       !.mutedAccounts = muted,
                                       !.mutedLoaded = TRUE])
    /\ UNCHANGED <<composer, thumb, subs>>

\* getCommunityMutedAccounts rejects: nothing catches it, nothing is set
MutedAccountsFailed ==
    /\ sb.mutedReq = "pending"
    /\ sb' = [sb EXCEPT !.mutedReq = "failed", !.event = "mutedFailed"]
    /\ UNCHANGED <<composer, thumb, subs>>

\* handleScroll near the bottom of the sidebar
HandleScroll ==
    /\ sb.mounted
    /\ ~sb.isLoading
    /\ sb.fetches < MaxFetches
    /\ sb' = FetchPostsCall(sb)
    /\ UNCHANGED <<composer, thumb, subs>>

\* PostInfiniteScroll calls the fetchPosts it was given
InfiniteScrollNext ==
    /\ sb.mounted
    /\ sb.fetches < MaxFetches
    /\ sb' = FetchPostsCall(sb)
    /\ UNCHANGED <<composer, thumb, subs>>

\* findPosts resolves with `posts`: filter, append, move the cursor, finally
FindPostsResolved(posts) ==
    /\ sb.inFlight # << >>
    /\ LET topLevelPosts == TopLevelPosts(posts, sb.mutedAccounts)
       IN sb' = [sb EXCEPT !.allPosts = @ \o topLevelPosts,
                           !.params = NextParams(LastVisible(topLevelPosts, posts)),
                           !.inFlight = Tail(@),
                           !.isFetching = FALSE,
                           !.isLoading = FALSE,
                           !.event = "resolved"]
    /\ UNCHANGED <<composer, thumb, subs>>

\* findPosts throws: catch logs, finally
FindPostsRejected ==
    /\ sb.inFlight # << >>
    /\ sb' = [sb EXCEPT !.inFlight = Tail(@),
                        !.isFetching = FALSE,
                        !.isLoading = FALSE,
                        !.event = "rejected"]
    /\ UNCHANGED <<composer, thumb, subs>>

SidebarInit == Init /\ user \in Users /\ apiKey # NULL

SidebarNext ==
    \/ \E communityTag \in {CommunityTag, NULL} : Mount(communityTag)
    \/ \E muted \in MutedLists : MutedAccountsLoaded(muted)
    \/ MutedAccountsFailed
    \/ HandleScroll
    \/ InfiniteScrollNext
    \/ \E posts \in Pages : FindPostsResolved(posts)
    \/ FindPostsRejected

SidebarSpec == SidebarInit /\ [][SidebarNext]_vars

\* ------------------------------------- RightSideBar over a fixed feed
\* the posts of the tag in the order findPosts lists them
Feed == <<Post("mallory", "p2", ""), Post("bob", "c1", "alice"), Post("alice", "p1", "")>>

\* place in the feed of the post a cursor names, 0 for the empty cursor
CursorIndex(params) ==
    IF params.start_author = "" /\ params.start_permlink = "" THEN 0
    ELSE CHOOSE i \in 1..Len(Feed) :
            /\ Feed[i].author = params.start_author
            /\ Feed[i].permlink = params.start_permlink

\* findPosts: up to Limit posts that follow the cursor, from the beginning
\* when the cursor is empty
FindPosts(params) ==
    LET from == CursorIndex(params) + 1
        to == IF from + Limit - 1 < Len(Feed) THEN from + Limit - 1 ELSE Len(Feed)
    IN SubSeq(Feed, from, to)

\* the request in flight resolves with the page that follows its cursor
FeedResolved ==
    /\ sb.inFlight # << >>
    /\ FindPostsResolved(FindPosts(Head(sb.inFlight).params))

FeedNext ==
    \/ \E communityTag \in {CommunityTag, NULL} : Mount(communityTag)
    \/ \E muted \in MutedLists : MutedAccountsLoaded(muted)
    \/ MutedAccountsFailed
    \/ HandleScroll
    \/ InfiniteScrollNext
    \/ FeedResolved
    \/ FindPostsRejected

FeedSpec == SidebarInit /\ [][FeedNext]_vars


\* ---------------------------------------------------------------- claims
\* the `![image](url)` lines of a body, in order
ImageLines(body) == SelectSeq(body, LAMBDA t : t.k = "image")
HasEmbed(body) == \E i \in 1..Len(body) : body[i].k = "embed"

\* a transaction of exactly a comment operation followed by a comment_options
\* operation whose only beneficiary is snapie with weight 1000
TwoOpsWithBeneficiary(tx) ==
    /\ Len(tx.ops) = 2
    /\ tx.ops[1].op = "comment"
    /\ tx.ops[2].op = "comment_options"
    /\ tx.ops[2].beneficiaries = <<[account |-> "snapie", weight |-> 1000]>>

\* a transaction of exactly one comment operation, without beneficiaries
OneCommentOp(tx) ==
    /\ Len(tx.ops) = 1
    /\ tx.ops[1].op = "comment"
    /\ tx.ops[1].beneficiaries = << >>

\* C1: whenever handleComment hands a transaction to the ledger while a video is
\* attached (selectedVideo non-null) it is comment + comment_options with the
\* snapie/1000 beneficiary; with no video attached it is a single comment
\* operation without beneficiaries.
C1_VideoAttachedIffTwoOps ==
    sent # << >> =>
        IF selectedVideo # NULL THEN TwoOpsWithBeneficiary(sent[1]) ELSE OneCommentOp(sent[1])

\* C2: the composer never holds a selected video together with a non-empty image
\* list or a selected GIF.
C2_VideoExcludesMedia ==
    ~(selectedVideo # NULL /\ (Len(images) > 0 \/ selectedGif # NULL))

\* C3: when the join of a video selection whose upload failed (transport, missing
\* credential, missing embed reference) has run, selectedVideo is null,
\* videoUploadProgress is 0 and videoEmbedUrl is null.
C3_FailedUploadLeavesNothing ==
    (joined # << >> /\ joined[1].up \in {"transport", "nokey", "noembed"}) =>
        /\ selectedVideo = NULL
        /\ videoUploadProgress = 0
        /\ videoEmbedUrl = NULL

\* C4: selectedVideo and videoEmbedUrl change only in a user action handler
\* (select video, remove video, the submit that succeeded) or in the step in which
\* handleVideoSelection runs its join, never in a callback of an upload whose
\* sibling task has not settled.
C4_VideoStateChangesOnlyAtJoin ==
    [][(selectedVideo' # selectedVideo \/ videoEmbedUrl' # videoEmbedUrl) =>
          \/ RemoveVideo
          \/ \E f \in Selectable : SelectVideo(f)
          \/ hc.pc = "broadcast" /\ calls' # << >>
          \/ joined' # << >>]_vars

\* C5: when the upload of a video that was removed while in flight resolves, its
\* result is discarded: videoEmbedUrl stays null; and a post submitted while no
\* video is attached contains no embed reference and carries no beneficiary split.
C5_RemovedVideoResultDiscarded ==
    /\ (joined # << >> /\ joined[1].removed) => videoEmbedUrl = NULL
    /\ (sent # << >> /\ selectedVideo = NULL) =>
          /\ ~HasEmbed(sent[1].ops[1].body)
          /\ OneCommentOp(sent[1])

\* C6: when the join finds the upload fulfilled and the thumbnail pipeline
\* rejected, videoEmbedUrl is the upload's embed reference, selectedVideo is what it
\* was, no alert is shown and the thumbnail-assignment endpoint is not called.
C6_ThumbnailFailureNonFatal ==
    (joined # << >> /\ joined[1].up = "fulfilled" /\ joined[1].th = "rejected") =>
        /\ videoEmbedUrl = EmbedUrlOf(joined[1].file)
        /\ selectedVideo = joined[1].videoBefore
        /\ alertMsg = NoAlert
        /\ joined[1].assign = << >>
        /\ tasks[joined[1].file].pc # "assign"

C6_Witness ==
    /\ joined # << >>
    /\ joined[1].up = "fulfilled"
    /\ joined[1].th = "rejected"
    /\ selectedVideo = joined[1].file


\* the URLs of the images of run h whose upload succeeded, in selection order
SucceededUrls(h) ==
    LET ok == SelectSeq([i \in 1..Len(h.imgs) |-> i], LAMBDA i : h.st[i] = "ok")
    IN [k \in 1..Len(ok) |-> ImageUrlOf(h.imgs[ok[k]])]

Assembled(h) == h.pc \in {"lookup", "broadcast"}

\* C7: when all N >= 1 selected images uploaded, in whatever order the uploads
\* completed, the assembled body has exactly N image lines and line i references
\* the URL returned for image i.
C7_ImageLinesInSelectionOrder ==
    (Assembled(hc) /\ Len(hc.imgs) >= 1 /\ \A i \in 1..Len(hc.imgs) : hc.st[i] = "ok") =>
        /\ Len(ImageLines(hc.body)) = Len(hc.imgs)
        /\ \A i \in 1..Len(hc.imgs) : ImageLines(hc.body)[i] = ImageMd(ImageUrlOf(hc.imgs[i]))

C7_Witness ==
    /\ Assembled(hc)
    /\ Len(hc.imgs) = 2
    /\ hc.imgs[1] # hc.imgs[2]
    /\ \A i \in 1..Len(hc.imgs) : hc.st[i] = "ok"

\* C8: a failed image (signing or transfer) never aborts the others or the
\* submission: a run that leaves the image phase goes on to publish, with an image
\* list and image lines of exactly the URLs of the images that succeeded, in
\* selection order.
C8_ImageFailureNeverAborts ==
    [][(hc.pc = "images" /\ hc'.pc # "images") =>
          /\ Assembled(hc')
          /\ hc'.urls = SucceededUrls(hc')
          /\ ImageLines(hc'.body) =
                 [k \in 1..Len(hc'.urls) |-> ImageMd(hc'.urls[k])]]_vars

\* a section of the body: nothing when absent, else one blank line and the content
Section(content) == IF content = << >> THEN << >> ELSE <<NL, NL>> \o content

\* C9: the assembled body is the draft text, then the embed reference, then the
\* image lines joined by single newlines, then the GIF line, each present section
\* preceded by exactly one blank line.
C9_BodyComposition ==
    Assembled(hc) =>
        hc.body = text
                  \o Section(IF hc.embed # NULL THEN <<EmbedTok(hc.embed)>> ELSE << >>)
                  \o Section(JoinLines([k \in 1..Len(SucceededUrls(hc)) |->
                                           ImageMd(SucceededUrls(hc)[k])]))
                  \o Section(IF hc.gif # NULL THEN <<GifMd(hc.gif)>> ELSE << >>)

C9_Witness ==
    /\ Assembled(hc)
    /\ text # << >>
    /\ hc.embed # NULL
    /\ Len(SucceededUrls(hc)) = 2
    /\ hc.gif # NULL

\* C10: when the ledger accepts the transaction, handleComment clears text, images,
\* selectedGif, selectedVideo, videoEmbedUrl, videoUploadProgress and
\* thumbnailProcessing, calls onNewComment once with the author, the permlink and
\* the body written to the ledger, and then calls onClose.
C10_SuccessClearsAndNotifies ==
    [][BroadcastAccepted =>
          /\ text' = << >>
          /\ images' = << >>
          /\ selectedGif' = NULL
          /\ selectedVideo' = NULL
          /\ videoEmbedUrl' = NULL
          /\ videoUploadProgress' = 0
          /\ thumbnailProcessing' = FALSE
          /\ Len(calls') = 2
          /\ calls'[1].fn = "onNewComment"
          /\ calls'[1].author = user
          /\ calls'[1].permlink = hc.tx[1].ops[1].permlink
          /\ calls'[1].body = hc.tx[1].ops[1].body
          /\ calls'[2].fn = "onClose"]_vars

C10_Witness ==
    /\ calls # << >>
    /\ calls[1].fn = "onNewComment"
    /\ Len(calls[1].body) > 1

\* C11: when the ledger write fails (the response reports success = false, or the
\* container lookup or the broadcast throws), that step leaves text, images,
\* selectedGif, selectedVideo, videoEmbedUrl and videoUploadProgress unchanged, shows
\* an alert, calls neither onNewComment nor onClose, hands no transaction to the
\* ledger, and ends the handleComment run (no later write for that submit).
C11_FailureLeavesDraftIntact ==
    [][(LookupFailed \/ BroadcastRejected \/ BroadcastThrew) =>
          /\ UNCHANGED <<text, images, selectedGif, selectedVideo, videoEmbedUrl,
                         videoUploadProgress>>
          /\ alertMsg' # NoAlert
          /\ calls' = << >>
          /\ sent' = << >>
          /\ hc'.pc = "idle"]_vars

\* a failed write of a draft with text, an image and a GIF, which are still there
C11_Witness ==
    /\ alertMsg \in {"Failed to post. Please try again.", "Error posting"}
    /\ text # << >>
    /\ Len(images) > 0
    /\ selectedGif # NULL
    /\ hc.pc = "idle"

\* C12: a submit action with no logged-in user, or with a draft whose text is empty
\* or whitespace-only and that has no image, no GIF and no video, shows an alert,
\* starts no handleComment run (so no signing, upload, lookup or ledger write) and
\* changes no composer state, isLoading included.
C12_InvalidSubmitRejected ==
    [][((ClickPost \/ KeyDownCtrlEnter)
          /\ (user = NULL
               \/ (Trim(text) = << >> /\ Len(images) = 0 /\ selectedGif = NULL
                   /\ selectedVideo = NULL))) =>
          /\ alertMsg' # NoAlert
          /\ sent' = << >>
          /\ calls' = << >>
          /\ UNCHANGED <<text, images, selectedGif, isGiphyModalOpen, selectedVideo,
                         videoUploadProgress, videoEmbedUrl, thumbnailProcessing,
                         isLoading, hc, tasks>>]_vars

\* a whitespace-only draft was submitted and rejected
C12_Witness ==
    /\ alertMsg = "Please enter some text, upload an image, select a gif, or upload a video before posting."
    /\ text = <<Ws>>
    /\ ~isLoading

\* number of times x occurs in the sequence s
Count(s, x) == Cardinality({i \in 1..Len(s) : s[i] = x})
Occurs(s, x) == \E i \in 1..Len(s) : s[i] = x

\* C13: in one thumbnail publish the primary host is attempted at most once; once
\* the publish has settled the fallback host was attempted exactly once if the
\* primary path failed (signing or upload) and never if it succeeded; if the
\* extraction failed neither host was attempted.
C13_HostsAttemptedAtMostOnce ==
    /\ Count(thumb.apiCalls, "getFileSignature") <= 1
    /\ Count(thumb.apiCalls, "uploadImage") <= 1
    /\ Count(thumb.apiCalls, "fetch-ipfs") <= 1
    /\ thumb.pc = "done" =>
          /\ (Occurs(thumb.trace, "sign-failed") \/ Occurs(thumb.trace, "upload-failed"))
                => Count(thumb.apiCalls, "fetch-ipfs") = 1
          /\ Occurs(thumb.trace, "uploaded") => Count(thumb.apiCalls, "fetch-ipfs") = 0
          /\ ~Occurs(thumb.trace, "blob") =>
                /\ Count(thumb.apiCalls, "getFileSignature") = 0
                /\ Count(thumb.apiCalls, "uploadImage") = 0
                /\ Count(thumb.apiCalls, "fetch-ipfs") = 0

\* the upload to the primary host failed and the fallback was used
C13_Witness ==
    /\ thumb.pc = "done"
    /\ Occurs(thumb.trace, "upload-failed")
    /\ thumb.result.st = "fulfilled"

C15_ObjectUrlReleased ==
    (thumb.pc \notin {"idle", "extract", "encode"}) =>
        Occurs(thumb.apiCalls, "revokeObjectURL")

\* C16: without the API credential no resumable transfer is ever started (no run's
\* upload is running, fulfilled or failed in transport), the thumbnail-assignment
\* endpoint is never called, and the join of a selection finds the upload rejected
\* for the missing credential and leaves the attachment reset: no selected video,
\* progress 0, no embed reference, the failure alert shown.
C16_NoCredentialNoTransfer ==
    apiKey = NULL =>
        /\ \A f \in VideoFiles :
              /\ tasks[f].up \in {"idle", "nokey"}
              /\ tasks[f].pc # "assign"
        /\ joined # << >> =>
              /\ joined[1].up = "nokey"
              /\ joined[1].assign = << >>
              /\ selectedVideo = NULL
              /\ videoUploadProgress = 0
              /\ videoEmbedUrl = NULL
              /\ thumbnailProcessing = FALSE
              /\ alertMsg = "Failed to upload video. Please try again."

\* a selection made without a credential has gone through its join, with a
\* thumbnail that was published
C16_Witness ==
    /\ apiKey = NULL
    /\ joined # << >>
    /\ joined[1].th \in {"hive", "ipfs"}

\* C17: during one video upload, from the selection until the upload settles, the
\* successive values of videoUploadProgress never decrease and lie in 0..100.
C17_ProgressMonotone ==
    [][(/\ selectedVideo # NULL
        /\ selectedVideo' = selectedVideo
        /\ tasks[selectedVideo].up = "running"
        /\ tasks'[selectedVideo].up = "running") =>
          /\ videoUploadProgress' >= videoUploadProgress
          /\ videoUploadProgress' \in 0..100]_vars

\* C18: two submissions whose submit times differ by at least one millisecond have
\* different permlinks; every permlink is the ISO timestamp without its
\* non-alphanumeric characters, in lower case.
C18_DistinctMillisecondsDistinctPermlinks ==
    /\ \A i, j \in 1..Len(subs) :
          subs[i].now # subs[j].now => subs[i].permlink # subs[j].permlink
    /\ \A i \in 1..Len(subs) :
          /\ Len(subs[i].permlink) = 19
          /\ \A k \in 1..19 :
                subs[i].permlink[k] \in
                    {"0", "1", "2", "3", "4", "5", "6", "7", "8", "9", "t", "z"}

\* two submissions one millisecond apart within the same second
C18_Witness ==
    /\ Len(subs) = 2
    /\ subs[2].now = subs[1].now + 1
    /\ subs[2].now \div 1000 = subs[1].now \div 1000

\* C19 as stated: two submissions whose submit times fall within the same second
\* have identical permlinks.
C19_SameSecondSamePermlink ==
    \A i, j \in 1..Len(subs) :
        (subs[i].now \div 1000 = subs[j].now \div 1000) => subs[i].permlink = subs[j].permlink

\* C19 amended: two submissions have identical permlinks exactly when their submit
\* times are equal to the millisecond; within the same second, different
\* milliseconds give different permlinks.
C19_SameMillisecondSamePermlink ==
    \A i, j \in 1..Len(subs) :
        /\ subs[i].now = subs[j].now => subs[i].permlink = subs[j].permlink
        /\ (subs[i].now \div 1000 = subs[j].now \div 1000 /\ subs[i].now # subs[j].now)
              => subs[i].permlink # subs[j].permlink

\* two submissions at the same millisecond
C19_Witness ==
    /\ Len(subs) = 2
    /\ subs[1].now = subs[2].now
    /\ subs[1].permlink = subs[2].permlink

\* position of the first occurrence of x in s
FirstIndex(s, x) == CHOOSE i \in 1..Len(s) : s[i] = x /\ \A j \in 1..(i - 1) : s[j] # x

\* the tag candidates of a comment operation: the two seed tags when the post went
\* to the snaps container, then every '#word' of its body in order
TagCandidates(op) ==
    LET hashtags == SelectSeq(op.body, LAMBDA t : t.k = "tag")
    IN (IF op.parent_permlink = ContainerPermlink THEN <<"hive-community", "snaps">> ELSE << >>)
       \o [i \in 1..Len(hashtags) |-> hashtags[i].v]

\* C20: the tags of the metadata handed to the ledger have no duplicates and are
\* the seed tags (when pp was "snaps") followed by the hashtags of the body, in
\* order of first occurrence, without '#', compared case-sensitively; the metadata
\* carries the application identifier and exactly the URLs of the images that
\* uploaded.
C20_MetadataTagsAndImages ==
    sent # << >> =>
        LET op == sent[1].ops[1]
            tags == op.tags
            candidates == TagCandidates(op)
        IN /\ \A i, j \in 1..Len(tags) : tags[i] = tags[j] => i = j
           /\ Range(tags) = Range(candidates)
           /\ \A i, j \in 1..Len(tags) :
                 i < j => FirstIndex(candidates, tags[i]) < FirstIndex(candidates, tags[j])
           /\ op.app = "mycommunity"
           /\ op.images = SucceededUrls(hc)

\* a post to the snaps container whose body repeats a hashtag and repeats a seed
\* tag, with one image uploaded and one failed
C20_Witness ==
    /\ sent # << >>
    /\ sent[1].ops[1].parent_permlink = ContainerPermlink
    /\ Len(TagCandidates(sent[1].ops[1])) > Len(sent[1].ops[1].tags)
    /\ Len(hc.imgs) = 2
    /\ Len(sent[1].ops[1].images) = 1

\* the '#word's of a body, in order, each once (first occurrence)
FirstHashtags(body) ==
    LET all == SelectSeq(body, LAMBDA t : t.k = "tag")
        firsts == SelectSeq([i \in 1..Len(all) |-> [i |-> i, v |-> all[i].v]],
                            LAMBDA e : \A j \in 1..(e.i - 1) : all[j].v # e.v)
    IN [i \in 1..Len(firsts) |-> firsts[i].v]

\* C21: a run whose pp is "snaps" waits for the container lookup and only then
\* writes, with the permlink the lookup returned as parent_permlink (never
\* "snaps") and a tag list that starts with the community tag and "snaps"; a run
\* with any other pp makes no lookup and writes with that pp as parent_permlink
\* and only the hashtags of the body as tags; when the lookup fails nothing is
\* written and the run ends.
C21_ContainerLookup ==
    [][/\ (hc'.pc = "lookup") => (hc'.pp = "snaps" /\ sent' = << >>)
       /\ (sent' # << >> /\ hc.pc = "lookup") =>
             /\ sent'[1].ops[1].parent_permlink = ContainerPermlink
             /\ sent'[1].ops[1].parent_permlink # "snaps"
             /\ Len(sent'[1].ops[1].tags) >= 2
             /\ sent'[1].ops[1].tags[1] = "hive-community"
             /\ sent'[1].ops[1].tags[2] = "snaps"
       /\ (sent' # << >> /\ hc.pc # "lookup") =>
             /\ hc'.pp # "snaps"
             /\ sent'[1].ops[1].parent_permlink = hc'.pp
             /\ sent'[1].ops[1].tags = FirstHashtags(sent'[1].ops[1].body)
       /\ LookupFailed => (sent' = << >> /\ hc'.pc = "idle")]_vars

\* a post went to the container the lookup returned
C21_Witness ==
    /\ sent # << >>
    /\ sent[1].ops[1].parent_permlink = ContainerPermlink
    /\ hc.pp = ContainerPermlink

\* the last non-empty X-Embed-URL header of a sequence of responses, NULL when
\* none carried one
LastObserved(headers) ==
    LET at == {i \in 1..Len(headers) : headers[i] \notin {NULL, ""}}
    IN IF at = {} THEN NULL
       ELSE headers[CHOOSE i \in at : \A j \in at : j <= i]

\* C22: the thumbnail-assignment endpoint is called at most once per selection
\* (only by the join of a run that was still awaiting its two promises), only
\* when the upload and the thumbnail publish both succeeded and the reference
\* has an 'owner/id' v parameter, and with the id segment alone; whether the
\* call is made or skipped, succeeds or fails, the attachment stays successful:
\* videoEmbedUrl is set, selectedVideo is kept and no failure alert is shown.
C22_ThumbnailAssignment ==
    [][/\ \A f \in VideoFiles :
            (tasks'[f].pc = "assign" /\ tasks[f].pc # "assign") =>
                /\ joined' # << >> /\ joined'[1].file = f /\ joined'[1].assign # << >>
       /\ (joined' # << >>) =>
            /\ tasks[joined'[1].file].pc = "await"
            /\ tasks'[joined'[1].file].pc # "await"
            /\ (joined'[1].assign # << >>) =>
                  /\ joined'[1].up = "fulfilled"
                  /\ joined'[1].th \in {"hive", "ipfs"}
                  /\ VideoParam(videoEmbedUrl') # NULL
                  /\ Len(VideoParam(videoEmbedUrl')) = 2
                  /\ joined'[1].assign[1] = VideoParam(videoEmbedUrl')[2]
                  /\ tasks'[joined'[1].file].pc = "assign"
            /\ (joined'[1].up = "fulfilled") =>
                  /\ videoEmbedUrl' # NULL
                  /\ selectedVideo' = selectedVideo
                  /\ alertMsg' = NoAlert
            /\ (/\ joined'[1].up = "fulfilled"
                /\ joined'[1].th \in {"hive", "ipfs"}
                /\ joined'[1].assign = << >>) =>
                  \/ VideoParam(videoEmbedUrl') = NULL
                  \/ Len(VideoParam(videoEmbedUrl')) < 2
       /\ \A f \in VideoFiles :
            (tasks[f].pc = "assign" /\ tasks'[f].pc # "assign") =>
                /\ UNCHANGED <<videoEmbedUrl, selectedVideo>>
                /\ alertMsg' = NoAlert
                /\ joined' = << >>]_vars

\* a run joined with both promises fulfilled and called the endpoint
C22_Witness ==
    /\ joined # << >>
    /\ joined[1].assign # << >>
    /\ videoEmbedUrl = EmbedUrlOf(joined[1].file)
    /\ selectedVideo = joined[1].file

\* C23: a transfer that succeeds without a non-empty X-Embed-URL header ever
\* observed rejects, and the join then resets the attachment as it does for a
\* transport failure (alert, selectedVideo null, progress 0, videoEmbedUrl
\* untouched); once a header was observed the upload resolves with the most
\* recently observed non-empty value.
C23_EmbedHeader ==
    [][/\ \A f \in VideoFiles : \A headers \in ResponseHeaders(f) \cup MalformedHeaders(f) :
            TusSuccess(f, headers) =>
                IF LastObserved(headers) = NULL
                THEN IF joined' # << >>
                     THEN joined'[1].up = "noembed"
                     ELSE tasks'[f].up = "noembed" /\ tasks'[f].embedUrl = NULL
                ELSE IF joined' # << >>
                     THEN joined'[1].up = "fulfilled" /\ videoEmbedUrl' = LastObserved(headers)
                     ELSE /\ tasks'[f].up = "fulfilled"
                          /\ tasks'[f].embedUrl = LastObserved(headers)
       /\ (joined' # << >> /\ joined'[1].up \in {"noembed", "transport"}) =>
            /\ alertMsg' = "Failed to upload video. Please try again."
            /\ selectedVideo' = NULL
            /\ videoUploadProgress' = 0
            /\ thumbnailProcessing' = FALSE
            /\ UNCHANGED videoEmbedUrl
            /\ tasks'[joined'[1].file] = NoTask]_vars

\* a transfer that succeeded with no header was joined as a failure
C23_Witness ==
    /\ joined # << >>
    /\ joined[1].up = "noembed"
    /\ alertMsg = "Failed to upload video. Please try again."

\* C25: whenever selectedVideo is null the upload progress is 0; in particular
\* after Remove video the progress stays 0 until a new video is selected,
\* whatever callbacks of the removed upload arrive.
C25_NoVideoNoProgress ==
    selectedVideo = NULL => videoUploadProgress = 0

\* C26: a submission that passed validation has isLoading false again once the
\* operations it awaits have settled, whether it succeeded or failed: when no
\* handleComment run is in flight, isLoading is false.
C26_LoadingCleared ==
    hc.pc = "idle" => ~isLoading

\* C27: no submission starts, by the Post button or by Ctrl+Enter, while a
\* video is selected and its embed reference is not yet known.
C27_NoSubmitDuringUpload ==
    [][(~isLoading /\ isLoading') => ~(selectedVideo # NULL /\ videoEmbedUrl = NULL)]_vars

\* C28: video a was removed while its run was in flight and video b was then
\* selected and is still being processed: an event of a's run (its failure, a
\* progress report, its success or its join) leaves b selected and leaves b's
\* progress, videoEmbedUrl and thumbnailProcessing as they were.
C28_RemovedVideoIsolated ==
    [][\A a, b \in VideoFiles :
          (/\ a # b
           /\ tasks[a].removed
           /\ selectedVideo = b
           /\ tasks[b].pc # "idle"
           /\ tasks'[b] = tasks[b]
           /\ \/ tasks'[a] # tasks[a]
              \/ /\ tasks' = tasks
                 /\ tasks[a].up = "running"
                 /\ tasks[b].up # "running"
                 /\ selectedVideo' = selectedVideo
                 /\ videoUploadProgress' # videoUploadProgress)
          => /\ selectedVideo' = b
             /\ UNCHANGED <<videoUploadProgress, videoEmbedUrl, thumbnailProcessing>>]_vars

\* how far a handleComment run has come
Rank(pc) ==
    CASE pc = "idle" -> 0
      [] pc = "images" -> 1
      [] pc = "lookup" -> 2
      [] pc = "broadcast" -> 3

FetchState(s) ==
    <<s.isFetching, s.isLoading, s.allPosts, s.params, s.inFlight>>

\* C30: at most one findPosts request is in flight; a fetchPosts call made
\* while another is running issues no request and changes no state; the guard
\* is released after every fetch, also one that throws.
C30_OneFetchInFlight ==
    [][/\ Len(sb.inFlight) <= 1
       /\ Len(sb'.inFlight) <= 1
       /\ sb.isFetching <=> (sb.inFlight # << >>)
       /\ (sb'.event \in {"issued", "skipped"} /\ sb.inFlight # << >>) =>
             /\ sb'.event = "skipped"
             /\ FetchState(sb') = FetchState(sb)
             /\ sb'.fetches = sb.fetches
       /\ (Len(sb'.inFlight) < Len(sb.inFlight)) =>
             /\ ~sb'.isFetching
             /\ ~sb'.isLoading
             /\ sb'.event \in {"resolved", "rejected"}]_vars

\* fetchPosts was called while a request was in flight
C30_Witness ==
    /\ sb.event = "skipped"
    /\ Len(sb.inFlight) = 1
    /\ sb.isFetching

\* C31: no findPosts request is issued before the muted-account list has been
\* loaded, and allPosts holds only top-level posts whose author is not in the
\* muted list.
C31_MutedBeforePosts ==
    [][/\ (Len(sb'.inFlight) > Len(sb.inFlight)) => sb'.mutedLoaded
       /\ \A i \in 1..Len(sb'.allPosts) :
             /\ sb'.allPosts[i].parent_author = ""
             /\ sb'.allPosts[i].author \notin Range(sb'.mutedAccounts)]_vars

\* C32: when findPosts returns the posts that follow the cursor in a fixed
\* order, allPosts never holds the same post twice, whatever fetches were made,
\* empty pages and pages with no visible post included.
C32_NoDuplicatePosts ==
    \A i, j \in 1..Len(sb.allPosts) : (i # j) => (sb.allPosts[i] # sb.allPosts[j])

====
